---- MODULE Spec2Model ----
(***************************************************************************)
(* Model of src/scripts/Script.cpp (CLEO-iOS): the Script unit (load,      *)
(* RunNextInstruction, RunNextBlock, Unload, destruction, move             *)
(* construction) and the handler resolver (FindHandler, GetAlternateThis). *)
(*                                                                         *)
(* Pointers into instruction buffers are records [buf, off]; buf = 0 is    *)
(* the null pointer.  Addresses of Script objects and of host routines    *)
(* are integers.  The record "last" is an observation log of the most      *)
(* recent operation: it is written by every action; RunNextBlock reads in  *)
(* it the result of the call it has just made, nothing else reads it.      *)
(***************************************************************************)
EXTENDS Integers, Sequences, FiniteSets, TLC

(* ------------------------------ bounds --------------------------------- *)

\* number of Script objects that are ever constructed (by load or by move)
NumUnits == 2

\* number of loads the process performs
MaxLoads == 1

\* a step is taken only while the cursor offset is at most this
MaxOff == 4

\* the same three bounds in the specification of several loaded units
LifeUnits == 3
LifeLoads == 2
LifeOff == 0

(* --------------------------- program constants ------------------------- *)

TerminateOpcode == 78       \* 0x4e
TableCutoff == 2700         \* 0xa8c
OpcodeBits == 32767         \* 0x7fff
InvertBit == 32768          \* 0x8000
MagicLo == 34079            \* 1374389535 % 2^16
MagicHi == 20971            \* 1374389535 \div 2^16
OffsetShift == 33
OffsetMask == 1073741808    \* 0x3ffffff0

(* ------------------------------ helpers -------------------------------- *)

RECURSIVE Pow2(_)
Pow2(n) == IF n = 0 THEN 1 ELSE 2 * Pow2(n - 1)

NullPtr == [buf |-> 0, off |-> 0]

\* a & b on non-negative integers, bit by bit
RECURSIVE BitAnd(_, _)
BitAnd(a, b) == IF a = 0 \/ b = 0 THEN 0
                ELSE (a % 2) * (b % 2) + 2 * BitAnd(a \div 2, b \div 2)

\* x >> n on a non-negative integer
ShiftRight(x, n) == x \div Pow2(n)

\* x >> 1 on a signed (long long) value: the arithmetic shift
ArithShiftRight1(x) == x \div 2

\* std::to_string(unsigned): the decimal digits, most significant first
DigitChar(d) == <<"0", "1", "2", "3", "4", "5", "6", "7", "8", "9">>[d + 1]

RECURSIVE to_string(_)
to_string(n) == IF n < 10 THEN <<DigitChar(n)>>
                ELSE to_string(n \div 10) \o <<DigitChar(n % 10)>>

\* "magic" + std::to_string(loadNumber)
TempName(n) == <<"m", "a", "g", "i", "c">> \o to_string(n)

(* --------------------------- the environment --------------------------- *)

\* The script files on storage, as byte sequences, by path.
Files ==
  [ term  |-> <<78, 0, 140, 10>>,            \* 0x004e, 0x0a8c
    prog  |-> <<18, 128, 0, 1, 78, 128>>,    \* 0x8012, 0x0100, 0x804e
    empty |-> <<>> ]                         \* a file of length 0

Paths == DOMAIN Files

\* the files that hold a program
ProgramPaths == {"term", "prog"}

\* a path for which fopen fails: the file does not exist
BadPaths == {"missing"}

\* st.st_size after stat: the file's length, or 0 (the zeroed struct) when
\* stat fails
StatSize(path) == IF path \in Paths THEN Len(Files[path]) ELSE 0

\* values a byte the unit does not own, or that was never written, may hold
JunkBytes == {78, 128}

\* opcodes for which a native interceptor can be registered
OverrideCandidates == {78, 256}

\* address of a Script object, and of its nextScript field
UnitAddr(u) == 4096 * u
NextScriptOffset == 8

\* the host's default handler and its handler table: the 8-byte word at byte
\* offset k of the table.  Even words hold handler addresses, odd words the
\* (signed) context adjustments.
DefaultHandlerAddr == 20000

TableWord(k) == IF k % 16 = 0 THEN 30000 + k
                ELSE IF (k \div 16) % 2 = 0 THEN 2 * (k \div 16) + 33
                ELSE 0 - (k \div 16) - 2

\* what an invoked routine (interceptor or host handler) may do to the unit
HandlerEffects == {"none", "skip", "jump", "stop"}

\* the effects of routines that leave the cursor where the step put it
StillEffects == {"none", "stop"}

\* what a host handler may return
HandlerResults == {0, 1}

ApplyEffect(s, eff) ==
  CASE eff = "none" -> s
    [] eff = "skip" -> [s EXCEPT !.currentPointer.off = @ + 2]
    [] eff = "jump" -> [s EXCEPT !.currentPointer.off = 0]
    [] eff = "stop" -> [s EXCEPT !.active = FALSE]

(* ------------------------------- state --------------------------------- *)

VARIABLES
  units,        \* the Script objects
  heap,         \* the arrays made by new uint8[size], in allocation order
  loadNumber,   \* static unsigned loadNumber
  overrides,    \* opcodes with a native interceptor (Mobile::GetHandler)
  statics,      \* which function-local statics of FindHandler are initialised
  block,        \* the RunNextBlock call in progress, if any
  crashed,      \* the process died
  last          \* observation log of the last operation

vars == <<units, heap, loadNumber, overrides, statics, block, crashed, last>>

UnitIds == 1 .. NumUnits
LifeUnitIds == 1 .. LifeUnits
AllUnitIds == UnitIds \cup LifeUnitIds

\* no static initialised yet
NoStatics == [defaultHandler |-> FALSE, handlerTable |-> FALSE]

\* no RunNextBlock in progress; calls: 0 when the last operation was not a
\* call made by RunNextBlock, 1 when it was the first call of its block,
\* 2 when it was a later one
IdleBlock == [running |-> 0, calls |-> 0]

\* an operation the caller starts: no block is in progress
Idle == block.running = 0 /\ block' = IdleBlock

\* all bytes of a Script zero (std::fill_n in the move constructor)
ZeroScript ==
  [ startPointer |-> NullPtr, currentPointer |-> NullPtr, active |-> FALSE,
    invertReturn |-> FALSE, activationTime |-> 0, name |-> <<>> ]

NoLog ==
  [ op |-> "none", unit |-> 0, dst |-> 0, ret |-> 0, mask |-> 0, path |-> "",
    allocs |-> <<>>, freads |-> <<>>, fcloses |-> <<>>, logErrors |-> 0,
    released |-> <<>>, reads |-> <<>>, lookups |-> <<>>,
    interceptorCalls |-> <<>>, tested |-> <<>>, findHandlerCalls |-> <<>>,
    hostCalls |-> <<>>, tableReads |-> <<>>, offset |-> 0,
    decodedInvert |-> FALSE, slidDefault |-> 0, slidTable |-> 0 ]

Init ==
  /\ units = [u \in AllUnitIds |-> [status |-> "none", s |-> ZeroScript]]
  /\ heap = <<>>
  /\ loadNumber = 0
  /\ overrides = {}
  /\ statics = NoStatics
  /\ block = IdleBlock
  /\ crashed = FALSE
  /\ last = NoLog

\* objects are numbered in the order of their construction
NextUnit(u) == /\ units[u].status = "none"
               /\ \A v \in AllUnitIds : v < u => units[v].status # "none"

(* ---------------------------- override layer --------------------------- *)

\* Mobile::GetHandler(opcode): non-null iff an interceptor is registered
GetHandler(reg, opcode) == opcode \in reg

RegisterOverride(o) ==
  /\ ~crashed
  /\ Idle
  /\ o \notin overrides
  /\ overrides' = overrides \cup {o}
  /\ last' = [NoLog EXCEPT !.op = "register"]
  /\ UNCHANGED <<units, heap, loadNumber, statics, crashed>>

(* --------------------------- handler resolver -------------------------- *)

\* faulty variant: the shifted product is not masked
HandlerOffsetUnmasked(opcode) ==
  LET m  == BitAnd(opcode, OpcodeBits)
      hi == m * MagicHi
      lo == m * MagicLo
  IN ShiftRight(hi + ShiftRight(lo, 16), OffsetShift - 16)

\* faulty variant: the product is shifted by 32 bits
HandlerOffsetShift32(opcode) ==
  LET m  == BitAnd(opcode, OpcodeBits)
      hi == m * MagicHi
      lo == m * MagicLo
  IN BitAnd(ShiftRight(hi + ShiftRight(lo, 16), 16), OffsetMask)

\* (uint64((opcode & 0x7fffu) * 1374389535llu) >> 33) & 0x3ffffff0.
\* The 64-bit product is kept as two 16-bit limbs of the multiplier:
\* product = hi * 2^16 + lo, so product >> 16 = hi + (lo >> 16).  The
\* product is below 2^15 * 2^31, so the 64-bit multiply never wraps.
HandlerOffset(opcode) ==
  LET m  == BitAnd(opcode, OpcodeBits)
      hi == m * MagicHi
      lo == m * MagicLo
  IN BitAnd(ShiftRight(hi + ShiftRight(lo, 16), OffsetShift - 16), OffsetMask)

\* faulty variant: the adjustment is added to the address of the object
GetAlternateThisFromStart(thisAddr, handlerOffset) ==
  thisAddr + ArithShiftRight1(TableWord(handlerOffset + 8))

\* Script::GetAlternateThis, on the object at address thisAddr
GetAlternateThis(thisAddr, handlerOffset) ==
  (thisAddr + NextScriptOffset) + ArithShiftRight1(TableWord(handlerOffset + 8))

\* faulty variant: the context pointer is adjusted before the range test
FindHandlerAdjustsFirst(opcode, thisPtr) ==
  LET handlerOffset == HandlerOffset(opcode)
      adjusted == GetAlternateThis(thisPtr, handlerOffset)
  IN IF opcode >= TableCutoff
     THEN [ handler |-> DefaultHandlerAddr, thisPtr |-> adjusted,
            tableReads |-> <<handlerOffset + 8>>, offset |-> 0 ]
     ELSE [ handler |-> TableWord(8 * (handlerOffset \div 8)),
            thisPtr |-> adjusted,
            tableReads |-> <<handlerOffset + 8, 8 * (handlerOffset \div 8)>>,
            offset |-> handlerOffset ]

\* Script::FindHandler(opcode, thisPtr): the handler returned, thisPtr as it
\* is left, the table words read (byte offsets) and handlerOffset
FindHandler(opcode, thisPtr) ==
  IF opcode >= TableCutoff
  THEN [ handler |-> DefaultHandlerAddr, thisPtr |-> thisPtr,
         tableReads |-> <<>>, offset |-> 0 ]
  ELSE LET handlerOffset == HandlerOffset(opcode)
       IN [ handler |-> TableWord(8 * (handlerOffset \div 8)),
            thisPtr |-> GetAlternateThis(thisPtr, handlerOffset),
            tableReads |-> <<handlerOffset + 8, 8 * (handlerOffset \div 8)>>,
            offset |-> handlerOffset ]

\* the statics after one call of FindHandler: defaultHandler is initialised
\* on the first call, handlerTable on the first call that passes the range
\* test
StaticsAfter(st, opcode) ==
  [ defaultHandler |-> TRUE,
    handlerTable |-> (st.handlerTable \/ opcode < TableCutoff) ]

\* the Memory::Slid evaluations of one call of FindHandler: of the default
\* handler's address by the static's initialiser, of the table's address by
\* the static's initialiser and by every call of GetAlternateThis
SlidCalls(st, opcode) ==
  [ default |-> IF st.defaultHandler THEN 0 ELSE 1,
    table |-> IF opcode >= TableCutoff THEN 0
              ELSE (IF st.handlerTable THEN 0 ELSE 1) + 1 ]

(* -------------------------------- load --------------------------------- *)

\* the values Script.h's member initialisers give the fields the
\* constructor body does not assign
InitialActive == TRUE
InitialInvertReturn == FALSE

\* faulty variant: the counter is not advanced
SameLoadNumber(n) == n

\* loadNumber++
NextLoadNumber(n) == n + 1

\* faulty variant: the cursor is not set
ConstructedNoCursor(ptr, n) ==
  [ startPointer |-> ptr, currentPointer |-> NullPtr,
    active |-> InitialActive, invertReturn |-> InitialInvertReturn,
    activationTime |-> 0, name |-> TempName(n) ]

\* the fields as the constructor leaves them: data at ptr, counter at n
Constructed(ptr, n) ==
  [ startPointer |-> ptr, currentPointer |-> ptr,
    active |-> InitialActive, invertReturn |-> InitialInvertReturn,
    activationTime |-> 0, name |-> TempName(n) ]

\* Script::Script(const std::string &path)
Construct(u, path) ==
  /\ ~crashed
  /\ NextUnit(u)
  /\ LET size    == StatSize(path)
         opened  == path \in Paths
         id      == Len(heap) + 1
         \* new uint8[size]; fread fills it when there is a file to read
         data    == IF opened THEN Files[path] ELSE <<>>
         array   == [size |-> size, data |-> data, released |-> 0]
         log     == [NoLog EXCEPT
                       !.op = "load", !.unit = u, !.path = path,
                       !.logErrors = IF opened THEN 0 ELSE 1,
                       !.allocs = <<id>>,
                       !.freads = <<IF opened THEN "file" ELSE "null">>]
         ptr     == [buf |-> id, off |-> 0]
     IN /\ heap' = Append(heap, array)
        /\ \/ \* the constructor runs to its end
              /\ units' = [units EXCEPT ![u] =
                   [status |-> "live", s |-> Constructed(ptr, loadNumber)]]
              /\ loadNumber' = NextLoadNumber(loadNumber)
              /\ crashed' = FALSE
              /\ last' = [log EXCEPT
                            !.fcloses = <<IF opened THEN "file" ELSE "null">>]
           \/ \* fread on a null FILE* is undefined: the process may die there
              /\ ~opened
              /\ crashed' = TRUE
              /\ last' = log
              /\ UNCHANGED <<units, loadNumber>>
  /\ UNCHANGED <<overrides, statics>>

\* a load, while the process has loads left
Load(u, path) ==
  /\ Idle
  /\ Len(heap) < MaxLoads
  /\ Construct(u, path)

\* the same with the bound of the specification of several loaded units
LifeLoad(u, path) ==
  /\ Idle
  /\ Len(heap) < LifeLoads
  /\ Construct(u, path)

(* -------------------------------- step --------------------------------- *)

\* the values the byte at p may hold when read
ByteAt(p) ==
  IF /\ p.buf # 0
     /\ heap[p.buf].released = 0
     /\ p.off >= 0
     /\ p.off < Len(heap[p.buf].data)
  THEN {heap[p.buf].data[p.off + 1]}
  ELSE JunkBytes

\* *(uint16 *)p, little-endian
ReadUint16(p) ==
  {lo + 256 * hi : lo \in ByteAt(p), hi \in ByteAt([p EXCEPT !.off = @ + 1])}

\* faulty variant: the inversion bit is left in the opcode
DecodeOpcodeKeepsBit(opcodeMask) == opcodeMask

\* opcodeMask & 0x7fffu
DecodeOpcode(opcodeMask) == BitAnd(opcodeMask, OpcodeBits)

\* invertReturn = opcodeMask & 0x8000u, stored in a bool
DecodeInvert(opcodeMask) == BitAnd(opcodeMask, InvertBit) # 0

\* faulty variant: active is set again
InactiveStepReactivates(s) == [s |-> [s EXCEPT !.active = TRUE], ret |-> 1]

\* faulty variant: an inactive unit reports that the block continues
InactiveStepContinues(s) == [s |-> s, ret |-> 0]

\* if (!active) return 1: the unit afterwards and the result
InactiveStep(s) == [s |-> s, ret |-> 1]

\* faulty variant: an interceptor ends the block
InterceptYields(s, eff) == [s |-> ApplyEffect(s, eff), ret |-> 1]

\* customHandler(this); return 0: the unit as the interceptor leaves it
Intercept(s, eff) == [s |-> ApplyEffect(s, eff), ret |-> 0]

\* faulty variant: the terminate case leaves active as it is
TerminateKeepsActive(s) == [s |-> s, ret |-> 1]

\* the terminate case: active = false; return 1
Terminate(s) == [s |-> [s EXCEPT !.active = FALSE], ret |-> 1]

\* faulty variant: 0x4e is not told apart
IsTerminateNever(opcode) == FALSE

\* opcode == 0x4e
IsTerminate(opcode) == opcode = TerminateOpcode

\* Script::RunNextInstruction, the routines it invokes having one of the
\* given effects
RunNextInstruction(u, effects) ==
  /\ ~crashed
  /\ units[u].status = "live"
  /\ LET s   == units[u].s
         log == [NoLog EXCEPT !.op = "step", !.unit = u]
     IN IF ~s.active
        THEN /\ last' = [log EXCEPT !.ret = InactiveStep(s).ret]
             /\ units' = [units EXCEPT ![u].s = InactiveStep(s).s]
             /\ UNCHANGED statics
        ELSE
          /\ s.currentPointer.off <= MaxOff
          /\ \E opcodeMask \in ReadUint16(s.currentPointer) :
             LET opcode == DecodeOpcode(opcodeMask)
                 s1 == [s EXCEPT !.currentPointer.off = @ + 2,
                                 !.invertReturn = DecodeInvert(opcodeMask)]
                 log1 == [log EXCEPT !.mask = opcodeMask,
                                     !.reads = <<s.currentPointer>>,
                                     !.decodedInvert = s1.invertReturn,
                                     !.lookups = <<opcode>>]
             IN IF GetHandler(overrides, opcode)
                THEN \E eff \in effects :
                       /\ units' = [units EXCEPT
                                      ![u].s = Intercept(s1, eff).s]
                       /\ last' = [log1 EXCEPT
                             !.interceptorCalls = <<<<opcode, UnitAddr(u)>>>>,
                             !.ret = Intercept(s1, eff).ret]
                       /\ UNCHANGED statics
                ELSE IF IsTerminate(opcode)
                THEN /\ units' = [units EXCEPT ![u].s = Terminate(s1).s]
                     /\ last' = [log1 EXCEPT !.tested = <<opcode>>,
                                             !.ret = Terminate(s1).ret]
                     /\ UNCHANGED statics
                ELSE LET found == FindHandler(opcode, UnitAddr(u))
                         slid  == SlidCalls(statics, opcode)
                     IN \E eff \in effects, r \in HandlerResults :
                          /\ units' = [units EXCEPT
                                         ![u].s = ApplyEffect(s1, eff)]
                          /\ statics' = StaticsAfter(statics, opcode)
                          /\ last' = [log1 EXCEPT
                                !.slidDefault = slid.default,
                                !.slidTable = slid.table,
                                !.tested = <<opcode>>,
                                !.findHandlerCalls =
                                   <<<<opcode, UnitAddr(u)>>>>,
                                !.tableReads = found.tableReads,
                                !.offset = found.offset,
                                !.hostCalls =
                                   <<<<found.handler, found.thisPtr, opcode>>>>,
                                !.ret = r]
  /\ UNCHANGED <<heap, loadNumber, overrides, crashed>>

\* one call of RunNextInstruction by the owner of the unit
Step(u) == Idle /\ RunNextInstruction(u, HandlerEffects)

\* the same when no routine moves the cursor
StraightStep(u) == Idle /\ RunNextInstruction(u, StillEffects)

\* the same while the cursor of the unit is near the start
LifeStep(u) ==
  /\ units[u].s.currentPointer.off <= LifeOff
  /\ Step(u)

\* faulty variant: the loop goes on after a non-zero result
BlockContinuesAlways(ret) == TRUE

\* while (!RunNextInstruction()): the loop goes on after this result
BlockContinues(ret) == ret = 0

\* Script::RunNextBlock, one iteration of its loop: the first when no block
\* is in progress, the next of the block in progress otherwise
RunNextBlock(u) ==
  /\ block.running \in {0, u}
  /\ RunNextInstruction(u, HandlerEffects)
  /\ block' = [ running |-> IF BlockContinues(last'.ret) THEN u ELSE 0,
                calls |-> IF block.running = 0 THEN 1 ELSE 2 ]

(* ----------------------- unload, destroy, move ------------------------- *)

\* delete[] p: nothing for a null pointer, else the array is released
DeleteArray(h, p) ==
  IF p = NullPtr THEN h ELSE [h EXCEPT ![p.buf].released = @ + 1]

ReleaseLog(p) == IF p = NullPtr THEN <<>> ELSE <<p>>

\* faulty variant: the pointer is not cleared after delete[]
ClearStartForgotten(s) == s

\* startPointer = nullptr
ClearStart(s) == [s EXCEPT !.startPointer = NullPtr]

\* Script::Unload
Unload(u) ==
  /\ ~crashed
  /\ Idle
  /\ units[u].status = "live"
  /\ heap' = DeleteArray(heap, units[u].s.startPointer)
  /\ units' = [units EXCEPT ![u].s = ClearStart(units[u].s)]
  /\ last' = [NoLog EXCEPT !.op = "unload", !.unit = u,
                           !.released = ReleaseLog(units[u].s.startPointer)]
  /\ UNCHANGED <<loadNumber, overrides, statics, crashed>>

\* Script::~Script; the fields of a destroyed object are no longer there,
\* and are kept as zeros
Destroy(u) ==
  /\ ~crashed
  /\ Idle
  /\ units[u].status = "live"
  /\ heap' = DeleteArray(heap, units[u].s.startPointer)
  /\ units' = [units EXCEPT ![u] = [status |-> "dead", s |-> ZeroScript]]
  /\ last' = [NoLog EXCEPT !.op = "destroy", !.unit = u,
                           !.released = ReleaseLog(units[u].s.startPointer)]
  /\ UNCHANGED <<loadNumber, overrides, statics, crashed>>

\* faulty variant: the source is left as it was
InvalidateNothing(s) == s

\* std::fill_n((uint8 *)&script, sizeof(Script), 0): the source afterwards
Invalidate(s) == ZeroScript

\* Script::Script(Script &&script): dst is the object constructed
Move(src, dst) ==
  /\ ~crashed
  /\ Idle
  /\ units[src].status = "live"
  /\ NextUnit(dst)
  /\ units' = [units EXCEPT ![dst] = [status |-> "live", s |-> units[src].s],
                            ![src].s = Invalidate(units[src].s)]
  /\ last' = [NoLog EXCEPT !.op = "move", !.unit = src, !.dst = dst]
  /\ UNCHANGED <<heap, loadNumber, overrides, statics, crashed>>

(* ------------------------------ the system ----------------------------- *)

Next ==
  \/ \E o \in OverrideCandidates : RegisterOverride(o)
  \/ \E u \in UnitIds, path \in ProgramPaths \cup BadPaths : Load(u, path)
  \/ \E u \in UnitIds : Step(u)
  \/ \E u \in UnitIds : Unload(u)
  \/ \E u \in UnitIds : Destroy(u)
  \/ \E src \in UnitIds, dst \in UnitIds : Move(src, dst)

Spec == Init /\ [][Next]_vars

(* ------------------------- blocks of instructions ---------------------- *)

NextBlock ==
  \/ \E o \in OverrideCandidates : RegisterOverride(o)
  \/ \E u \in UnitIds, path \in ProgramPaths : Load(u, path)
  \/ \E u \in UnitIds : Step(u)
  \/ \E u \in UnitIds : RunNextBlock(u)
  \/ \E u \in UnitIds : Unload(u)

SpecBlock == Init /\ [][NextBlock]_vars

(* ------------------- routines that leave the cursor -------------------- *)

NextStraight ==
  \/ \E o \in OverrideCandidates : RegisterOverride(o)
  \/ \E u \in UnitIds, path \in Paths \cup BadPaths : Load(u, path)
  \/ \E u \in UnitIds : StraightStep(u)
  \/ \E u \in UnitIds : Unload(u)
  \/ \E u \in UnitIds : Destroy(u)
  \/ \E src \in UnitIds, dst \in UnitIds : Move(src, dst)

SpecStraight == Init /\ [][NextStraight]_vars

(* ------------------------- several loaded units ------------------------ *)

\* the file the units of this specification are loaded from
LifePaths == {"term"}

NextLife ==
  \/ \E u \in LifeUnitIds, path \in LifePaths : LifeLoad(u, path)
  \/ \E u \in LifeUnitIds : LifeStep(u)
  \/ \E u \in LifeUnitIds : Unload(u)
  \/ \E u \in LifeUnitIds : Destroy(u)
  \/ \E src \in LifeUnitIds, dst \in LifeUnitIds : Move(src, dst)

SpecLife == Init /\ [][NextLife]_vars

(* ---------------- the resolver on every 15-bit opcode ------------------ *)

\* every value opcodeMask & 0x7fffu can take
AllOpcodes == 0 .. OpcodeBits

InitResolver ==
  /\ units = [u \in AllUnitIds |-> [status |-> "none", s |-> ZeroScript]]
  /\ heap = <<>>
  /\ loadNumber = 0
  /\ overrides = {}
  /\ statics = NoStatics
  /\ block = IdleBlock
  /\ crashed = FALSE
  /\ \E o \in AllOpcodes, u \in UnitIds :
        last = [NoLog EXCEPT !.op = "resolve", !.unit = u, !.lookups = <<o>>]

\* one call FindHandler(opcode, thisPtr) with thisPtr = the unit
Resolve ==
  /\ last.op = "resolve"
  /\ LET opcode == last.lookups[1]
         found  == FindHandler(opcode, UnitAddr(last.unit))
         slid   == SlidCalls(statics, opcode)
     IN /\ last' = [last EXCEPT
                   !.op = "resolved",
                   !.findHandlerCalls = <<<<opcode, UnitAddr(last.unit)>>>>,
                   !.tableReads = found.tableReads,
                   !.offset = found.offset,
                   !.slidDefault = slid.default,
                   !.slidTable = slid.table,
                   !.hostCalls = <<<<found.handler, found.thisPtr, opcode>>>>]
        /\ statics' = StaticsAfter(statics, opcode)
  /\ UNCHANGED <<units, heap, loadNumber, overrides, block, crashed>>

NextResolver == Resolve

SpecResolver == InitResolver /\ [][NextResolver]_vars

(* ------------------------------ properties ----------------------------- *)

\* the last operation was a step that read and decoded an opcode mask
Decoded == last.op = "step" /\ last.reads # <<>>

\* the opcode a mask carries (its low 15 bits)
OpcodeOf(mask) == mask % 32768

NoHandlerInvoked == last.interceptorCalls = <<>> /\ last.hostCalls = <<>>

\* C1, as stated: a step that decodes mask 0x004e or 0x804e clears active,
\* returns non-zero and invokes no interceptor and no host handler, whatever
\* is registered in the override layer.
C1_TerminateAlways ==
  (Decoded /\ last.mask \in {78, 32846})
    => /\ ~units[last.unit].s.active
       /\ last.ret # 0
       /\ NoHandlerInvoked

\* C1, amended: a step that decodes mask 0x004e or 0x804e while no native
\* interceptor is registered for 0x4e clears active, returns 1 and invokes
\* no interceptor and no host handler, and does not call FindHandler.
C1_TerminateUnlessIntercepted ==
  (Decoded /\ last.mask \in {78, 32846} /\ 78 \notin overrides)
    => /\ ~units[last.unit].s.active
       /\ last.ret = 1
       /\ NoHandlerInvoked
       /\ last.findHandlerCalls = <<>>

\* a step decoded 0x804e with another opcode overridden but not 0x4e
C1_Witness ==
  /\ Decoded
  /\ last.mask = 32846
  /\ overrides = {256}
  /\ last.ret = 1
  /\ ~units[last.unit].s.active

\* C2: a step on a unit with active = false returns 1 and changes nothing:
\* the unit (cursor, invertReturn and all) and the heap are as before, no
\* byte is read, the override layer and FindHandler are not consulted.
C2_InactiveStepIsNoOp ==
  [][ \A u \in UnitIds :
        (last'.op = "step" /\ last'.unit = u /\ ~units[u].s.active)
          => /\ last'.ret = 1
             /\ units' = units
             /\ heap' = heap
             /\ last'.reads = <<>>
             /\ last'.lookups = <<>>
             /\ last'.findHandlerCalls = <<>>
             /\ last'.tableReads = <<>>
             /\ NoHandlerInvoked' ]_vars

\* a loaded unit that a terminate opcode made inactive was stepped again
C2_Witness ==
  /\ last.op = "step"
  /\ last.reads = <<>>
  /\ last.ret = 1
  /\ units[last.unit].s.currentPointer = [buf |-> 1, off |-> 2]
  /\ ~units[last.unit].s.active

\* C3: a step on an active unit that decodes an opcode with a registered
\* interceptor invokes that interceptor once, with the unit as context,
\* returns 0, and neither calls FindHandler nor reads the handler table.
C3_InterceptorPreempts ==
  (Decoded /\ OpcodeOf(last.mask) \in overrides)
    => /\ last.interceptorCalls =
            <<<<OpcodeOf(last.mask), UnitAddr(last.unit)>>>>
       /\ last.ret = 0
       /\ last.findHandlerCalls = <<>>
       /\ last.tableReads = <<>>
       /\ last.hostCalls = <<>>

\* the interceptor of opcode 0x100 ran and cleared active; the step returned 0
C3_Witness ==
  /\ Decoded
  /\ last.mask = 256
  /\ last.interceptorCalls = <<<<256, UnitAddr(last.unit)>>>>
  /\ ~units[last.unit].s.active
  /\ last.ret = 0

\* C4: for every mask m a step reads, invertReturn is assigned (bit 15 of m),
\* and the opcode of the override lookup, of the 0x4e test, of FindHandler
\* and of the handler call is m & 0x7fff.
C4_MaskSplit ==
  Decoded
    => /\ last.decodedInvert = (last.mask >= 32768)
       /\ last.lookups = <<OpcodeOf(last.mask)>>
       /\ \A i \in DOMAIN last.tested : last.tested[i] = OpcodeOf(last.mask)
       /\ \A i \in DOMAIN last.interceptorCalls :
            last.interceptorCalls[i][1] = OpcodeOf(last.mask)
       /\ \A i \in DOMAIN last.findHandlerCalls :
            last.findHandlerCalls[i][1] = OpcodeOf(last.mask)
       /\ \A i \in DOMAIN last.hostCalls :
            last.hostCalls[i][3] = OpcodeOf(last.mask)

\* mask 0x8012 was dispatched to a host handler as opcode 0x12, inverted
C4_Witness ==
  /\ Decoded
  /\ last.mask = 32786
  /\ last.decodedInvert
  /\ Len(last.hostCalls) = 1
  /\ last.hostCalls[1][3] = 18
  /\ last.findHandlerCalls = <<<<18, UnitAddr(last.unit)>>>>

Resolved == last.op = "resolved"

\* C5: for 0xa8c <= o <= 0x7fff FindHandler returns the default handler,
\* leaves the context pointer as passed and reads no table word; the context
\* pointer differs from the one passed only when o < 0xa8c.
C5_DefaultAboveCutoff ==
  Resolved =>
    LET o   == last.findHandlerCalls[1][1]
        ctx == last.findHandlerCalls[1][2]
    IN /\ (o >= 2700 /\ o <= 32767)
            => /\ last.hostCalls[1][1] = DefaultHandlerAddr
               /\ last.hostCalls[1][2] = ctx
               /\ ctx = UnitAddr(last.unit)
               /\ last.tableReads = <<>>
       /\ last.hostCalls[1][2] # ctx => o < 2700

\* FindHandler was applied to the first opcode at the cutoff
C5_Witness ==
  /\ Resolved
  /\ last.findHandlerCalls[1][1] = 2700
  /\ last.hostCalls[1][1] = DefaultHandlerAddr

\* C6: for o < 0xa8c the table offset is a multiple of 16 and at most 416:
\* the slot index offset/8 is at most 52 and the adjustment word at
\* offset + 8 ends inside the 27 sixteen-byte entries.
C6_OffsetInTable ==
  (Resolved /\ last.findHandlerCalls[1][1] < 2700)
    => /\ last.offset % 16 = 0
       /\ last.offset >= 0
       /\ last.offset <= 416
       /\ last.offset \div 8 <= 52
       /\ last.offset + 8 + 8 <= 27 * 16
       /\ last.tableReads = <<last.offset + 8, last.offset>>

\* FindHandler was applied to the last tabulated opcode, 0xa8b
C6_Witness ==
  /\ Resolved
  /\ last.findHandlerCalls[1][1] = 2699
  /\ last.offset = 416

Releasing == last.op \in {"unload", "destroy"}

\* C7: Unload (alone or from the destructor) on a unit with a buffer
\* releases that buffer once, through startPointer, and nulls startPointer;
\* on a unit whose startPointer is null it releases nothing, and a plain
\* Unload then changes nothing.
C7_UnloadIdempotent ==
  [][ \A u \in UnitIds :
        (Releasing' /\ last'.unit = u) =>
          LET start == units[u].s.startPointer
          IN /\ units'[u].s.startPointer = NullPtr
             /\ start # NullPtr
                  => /\ last'.released = <<start>>
                     /\ heap' = [heap EXCEPT ![start.buf].released = @ + 1]
                     /\ heap[start.buf].released = 0
             /\ start = NullPtr
                  => /\ last'.released = <<>>
                     /\ heap' = heap
                     /\ last'.op = "unload" => units' = units ]_vars

\* a second Unload on a unit whose cursor had moved off the buffer start
C7_Witness ==
  /\ last.op = "unload"
  /\ last.released = <<>>
  /\ units[last.unit].s.currentPointer = [buf |-> 1, off |-> 2]
  /\ heap[1].released = 1

AllZero(s) ==
  /\ s.startPointer = [buf |-> 0, off |-> 0]
  /\ s.currentPointer = [buf |-> 0, off |-> 0]
  /\ ~s.active
  /\ ~s.invertReturn
  /\ s.activationTime = 0
  /\ s.name = <<>>

\* C8: a move leaves every field of the source zero and gives the
\* destination the source's fields; no other unit has the destination's
\* buffer; a zeroed unit releases nothing when unloaded or destroyed and
\* returns 1 when stepped.
C8_MoveInvalidatesSource ==
  [][ /\ last'.op = "move"
         => /\ AllZero(units'[last'.unit].s)
            /\ units'[last'.dst].s = units[last'.unit].s
            /\ heap' = heap
            /\ \A v \in UnitIds \ {last'.dst} :
                 \/ units'[v].s.startPointer = NullPtr
                 \/ units'[v].s.startPointer #
                      units'[last'.dst].s.startPointer
      /\ \A u \in UnitIds :
           (units[u].status = "live" /\ AllZero(units[u].s) /\ last'.unit = u)
             => /\ Releasing' => (last'.released = <<>> /\ heap' = heap)
                /\ last'.op = "step" => (last'.ret = 1 /\ units' = units) ]_vars

\* the source of a move was destroyed while the destination holds the buffer
C8_Witness ==
  /\ last.op = "destroy"
  /\ last.unit = 1
  /\ last.released = <<>>
  /\ units[2].status = "live"
  /\ units[2].s.startPointer = [buf |-> 1, off |-> 0]
  /\ heap[1].released = 0

\* C9, as stated: a unit whose active flag is true has a buffer that is not
\* null and not released.
C9_ActiveHasBuffer ==
  \A u \in UnitIds :
    (units[u].status = "live" /\ units[u].s.active)
      => /\ units[u].s.startPointer # NullPtr
         /\ heap[units[u].s.startPointer.buf].released = 0

\* C10, as stated: when the file cannot be opened the constructor allocates
\* and records no buffer and does not read from or close the null FILE*.
C10_FailedOpenLeavesNoBuffer ==
  (last.op = "load" /\ last.path \notin DOMAIN Files)
    => /\ last.logErrors = 1
       /\ last.allocs = <<>>
       /\ last.freads = <<>>
       /\ last.fcloses = <<>>
       /\ heap = <<>>
       /\ units[last.unit].s.startPointer = NullPtr
       /\ units[last.unit].s.currentPointer = NullPtr

\* C11: a load whose file opens leaves the unit live with startPointer at
\* offset 0 of the array just allocated, currentPointer equal to
\* startPointer, activationTime 0 and active true; a step taken right after
\* it reads the two bytes at offset 0 of that array.
C11_LoadedUnitReady ==
  [][ /\ (last'.op = "load" /\ last'.path \in Paths)
           => LET s == units'[last'.unit].s
              IN /\ ~crashed'
                 /\ units'[last'.unit].status = "live"
                 /\ s.startPointer = [buf |-> Len(heap'), off |-> 0]
                 /\ s.currentPointer = s.startPointer
                 /\ s.activationTime = 0
                 /\ s.active
      /\ (/\ last.op = "load" /\ last.path \in Paths
          /\ last'.op = "step" /\ last'.unit = last.unit)
           => last'.reads = <<[buf |-> Len(heap), off |-> 0]>> ]_vars

\* the first step of a unit loaded from prog read 0x8012 at offset 0
C11_Witness ==
  /\ Decoded
  /\ last.reads = <<[buf |-> 1, off |-> 0]>>
  /\ last.mask = 32786
  /\ units[last.unit].s.activationTime = 0
  /\ units[last.unit].s.startPointer = [buf |-> 1, off |-> 0]

\* C12: within one RunNextBlock every call but the last returned 0 and the
\* block returns at the first call that returns non-zero: a call that
\* returns 0 is followed by another call on the same unit, a call that
\* returns non-zero ends the block, a later call of a block is made only by
\* a block still in progress, and a block started on an inactive unit ends
\* after its first call with the units and the heap unchanged.
C12_BlockEndsAtFirstNonZero ==
  [][ /\ block'.running # 0
           => /\ last'.op = "step" /\ last'.unit = block'.running
              /\ last'.ret = 0
      /\ (block'.calls > 0 /\ last'.ret # 0) => block'.running = 0
      /\ (block'.calls > 0 /\ last'.ret = 0) => block'.running = last'.unit
      /\ block'.calls = 2 => block.running = last'.unit
      /\ block.running # 0
           => /\ block'.calls = 2
              /\ last'.op = "step" /\ last'.unit = block.running
      /\ (block'.calls = 1 /\ ~units[last'.unit].s.active)
           => /\ block'.running = 0
              /\ last'.ret = 1
              /\ last'.reads = <<>>
              /\ units' = units
              /\ heap' = heap ]_vars

\* a block made at least two calls and returned at a terminate opcode
C12_Witness ==
  /\ block = [running |-> 0, calls |-> 2]
  /\ Decoded
  /\ last.tested = <<78>>
  /\ last.ret = 1
  /\ last.reads[1].off > 0

\* C13: a step on a unit whose active is false returns 1, reads nothing,
\* invokes no interceptor and no host handler and ends the block it was
\* called from; a block left in progress by a call that cleared active makes
\* exactly that call next; and no step, of this or another unit, changes a
\* unit whose active is false: its cursor stays and active stays false.
C13_InactiveStaysInactive ==
  [][ \A u \in UnitIds :
        (~units[u].s.active /\ last'.op = "step")
          => /\ units'[u] = units[u]
             /\ last'.unit = u
                  => /\ last'.ret = 1
                     /\ last'.reads = <<>>
                     /\ last'.lookups = <<>>
                     /\ NoHandlerInvoked'
                     /\ last'.findHandlerCalls = <<>>
                     /\ block'.running = 0
             /\ block.running = u
                  => /\ last'.unit = u
                     /\ block'.calls = 2 ]_vars

\* inside one block a call returned 0 with active cleared, and the next
\* call of the block returned 1 without reading
C13_Witness ==
  /\ block = [running |-> 0, calls |-> 2]
  /\ last.op = "step"
  /\ last.reads = <<>>
  /\ last.ret = 1
  /\ units[last.unit].status = "live"
  /\ ~units[last.unit].s.active

\* the opcodes FindHandler was called with, and those host handlers were
\* invoked with, in the last operation
ForwardedOpcodes ==
  {last.findHandlerCalls[i][1] : i \in DOMAIN last.findHandlerCalls}
    \cup {last.hostCalls[i][3] : i \in DOMAIN last.hostCalls}

\* C14: no step calls FindHandler or invokes a host handler with opcode
\* 0x4e; a step that reaches the 0x4e test found no interceptor for its
\* opcode, and a step that calls FindHandler found no interceptor and passed
\* the 0x4e test first.
C14_TerminateNotForwarded ==
  /\ TerminateOpcode \notin ForwardedOpcodes
  /\ last.tested # <<>>
       => /\ last.tested = last.lookups
          /\ last.tested[1] \notin overrides
          /\ last.interceptorCalls = <<>>
  /\ last.findHandlerCalls # <<>>
       => /\ last.tested = <<last.findHandlerCalls[1][1]>>
          /\ last.interceptorCalls = <<>>
  /\ last.interceptorCalls # <<>>
       => /\ last.tested = <<>>
          /\ last.findHandlerCalls = <<>>
          /\ last.hostCalls = <<>>

\* mask 0x004e was decoded with no interceptor registered at all
C14_Witness ==
  /\ Decoded
  /\ last.mask = 78
  /\ overrides = {}
  /\ last.tested = <<78>>
  /\ ForwardedOpcodes = {}

\* half of a signed word, rounded towards minus infinity
HalfFloor(w) == IF w >= 0 THEN w \div 2 ELSE 0 - ((1 - w) \div 2)

\* C15: for o < 0xa8c FindHandler returns the table word at byte offset
\* handlerOffset (slot handlerOffset / 8) and leaves as context pointer the
\* address of the nextScript field of the context it was passed plus half
\* (arithmetic shift) of the signed word at handlerOffset + 8; that word is
\* read once.
C15_TableHandlerAndContext ==
  (Resolved /\ last.findHandlerCalls[1][1] < 2700)
    => LET ctx == last.findHandlerCalls[1][2]
           adj == TableWord(last.offset + 8)
       IN /\ Len(last.hostCalls) = 1
          /\ last.hostCalls[1][1] = TableWord(8 * (last.offset \div 8))
          /\ last.hostCalls[1][2] = (ctx + NextScriptOffset) + HalfFloor(adj)
          /\ ctx = UnitAddr(last.unit)
          /\ Len(SelectSeq(last.tableReads,
                           LAMBDA k : k = last.offset + 8)) = 1

\* opcode 150 resolved to entry 1, whose adjustment word is -3: the context
\* moved from the object's address by 8 - 2
C15_Witness ==
  /\ Resolved
  /\ last.findHandlerCalls[1][1] = 150
  /\ last.hostCalls[1][1] = 30016
  /\ last.hostCalls[1][2] = UnitAddr(last.unit) + 6

\* C19: for o < 0xa8c handlerOffset is 16 * floor(o / 100), so the handler
\* and the adjustment are those of entry floor(o / 100), an entry in 0..26;
\* every entry in 0..26 is the entry of some opcode below 0xa8c, and two
\* opcodes below 0xa8c have the same offset exactly when they lie in the
\* same hundred.
C19_OffsetIsHundreds ==
  (Resolved /\ last.findHandlerCalls[1][1] < 2700)
    => LET o == last.findHandlerCalls[1][1]
           e == o \div 100
       IN /\ last.offset = 16 * e
          /\ e \in 0 .. 26
          /\ last.hostCalls[1][1] = TableWord(16 * e)
          /\ last.hostCalls[1][2] =
               UnitAddr(last.unit) + NextScriptOffset
                 + HalfFloor(TableWord(16 * e + 8))
          /\ o = 0 =>
               /\ \A k \in 0 .. 26 :
                    \E q \in 0 .. 2699 : HandlerOffset(q) = 16 * k
               /\ \A q \in 0 .. 2698 :
                    (HandlerOffset(q) = HandlerOffset(q + 1))
                      <=> (q \div 100 = (q + 1) \div 100)

\* the last opcode of the second hundred, 199, resolved to entry 1
C19_Witness ==
  /\ Resolved
  /\ last.findHandlerCalls[1][1] = 199
  /\ last.offset = 16
  /\ last.hostCalls[1][1] = 30016

\* the decimal digits, digit d at index d + 1
Digits == <<"0", "1", "2", "3", "4", "5", "6", "7", "8", "9">>

\* the name given by the load that found the counter at n, for n < 10
MagicName(n) == <<"m", "a", "g", "i", "c", Digits[n + 1]>>

\* C16: loadNumber is the number of loads made so far (0 at first); a load
\* adds exactly 1 to it and names the unit "magic" followed by the decimal
\* value the counter had, and a step, a move, an Unload or a destruction
\* leaves it as it is; no two units bear the same name.
C16_LoadCounter ==
  [][ /\ loadNumber = Len(heap)
      /\ loadNumber' = Len(heap')
      /\ last'.op = "load"
           => /\ loadNumber' = loadNumber + 1
              /\ units'[last'.unit].s.name = MagicName(loadNumber)
      /\ last'.op # "load" => loadNumber' = loadNumber
      /\ \A u \in AllUnitIds, v \in AllUnitIds :
           (u # v /\ units'[u].s.name # <<>>)
             => units'[u].s.name # units'[v].s.name ]_vars

\* two loads were made and the unit of the first was moved: the names are
\* magic0, held by the third object, and magic1
C16_Witness ==
  /\ loadNumber = 2
  /\ units[1].s.name = <<>>
  /\ units[2].s.name = <<"m", "a", "g", "i", "c", "1">>
  /\ units[3].s.name = <<"m", "a", "g", "i", "c", "0">>

\* C17, as stated: each of the two host addresses is resolved at most once
\* in the process, by the first operation that uses it; an operation made
\* when the address is already held resolves nothing.
C17_ResolvedOnce ==
  [][ /\ last'.slidTable <= (IF statics.handlerTable THEN 0 ELSE 1)
      /\ last'.slidDefault <= (IF statics.defaultHandler THEN 0 ELSE 1)
    ]_vars

\* C18, as stated: a step of a unit that holds its array (startPointer at
\* the array's first byte, array not released) reads its two bytes inside
\* the array, in every execution whose routines leave the cursor alone.
C18_ReadsInsideBuffer ==
  Decoded =>
    LET p == last.reads[1]
        s == units[last.unit].s
    IN (/\ p.buf # 0
        /\ s.startPointer = [buf |-> p.buf, off |-> 0]
        /\ heap[p.buf].released = 0)
         => /\ 0 <= p.off
            /\ p.off + 2 <= heap[p.buf].size

\* the units whose startPointer is the array i
Owners(i) == {u \in AllUnitIds : units[u].s.startPointer.buf = i}

\* C20: no array is released twice, no array is the startPointer of two
\* units, and while the process runs an array is unreleased exactly when
\* some live unit holds it: when no unit is live any more, every array
\* allocated has been released once.
C20_SingleOwnerRelease ==
  \A i \in DOMAIN heap :
    /\ heap[i].released <= 1
    /\ Cardinality(Owners(i)) <= 1
    /\ \A u \in Owners(i) : units[u].status = "live"
    /\ ~crashed => heap[i].released = (IF Owners(i) = {} THEN 1 ELSE 0)

\* two arrays were allocated, one was moved to a third object, and all three
\* objects have been destroyed
C20_Witness ==
  /\ Len(heap) = 2
  /\ \A i \in DOMAIN heap : heap[i].released = 1
  /\ \A u \in LifeUnitIds : units[u].status = "dead"

====
